---- MODULE Spec2Model ----
(***************************************************************************)
(* Model of the cancellable-timer crate (src/src/lib.rs).                  *)
(*                                                                         *)
(* A Timer owns a mio Poll with one Registration registered under          *)
(* Token(0) for readable readiness, edge-triggered, and an Events buffer.  *)
(* A Canceller owns a SetReadiness handle on the same registration and is  *)
(* Clone.  Timer::sleep is one blocking Poll::poll call with a timeout     *)
(* followed by a scan of the returned events; Canceller::cancel is one     *)
(* SetReadiness::set_readiness(Ready::readable()) call.                    *)
(*                                                                         *)
(* The calls into mio are modelled at the granularity at which lib.rs      *)
(* makes them: set_readiness is one atomic step, Poll::poll is a call      *)
(* step, a blocked phase in which time passes, and a return step that      *)
(* fills the Events buffer.                                                *)
(***************************************************************************)
EXTENDS Integers, Sequences, FiniteSets

\* ---------------------------------------------------------------- bounds
NumCancellers == 2
MaxDur == 2
MaxSleeps == 3
MaxCancels == 3
\* Under the scheduling assumptions: the sleep calls the program itself makes
\* and the cancel() calls, together, per Timer.
MaxFairCalls == 4
\* With two pairs: the sleep calls returned and the cancel() calls, over both.
MaxPairCalls == 2

\* ------------------------------------------------------ program constants
TokenValue == 0
EventsCapacity == 4

\* The (Timer, Canceller) pairs the program has made, and the Timer of the pair
\* it uses when it uses only one.
Pairs == {1, 2}
Timers == {1}
\* The Canceller slots of the pair in use: slot 1 for its original, the rest for
\* clones, of either pair.
Cancellers == 1..NumCancellers
Durations == 0..MaxDur
\* A Canceller slot that holds no Canceller yet; a wait no cancel() has landed in.
Absent == {}
NoHit == {}
Readable == "readable"
OsErrors == {"EBADF", "EINVAL"}

VARIABLES
    registration,   \* per Timer: the mio registration node shared with its Cancellers
    timer,          \* per Timer: token, events buffer, and the position of its sleep call
    set_readiness,  \* per Canceller: the registration it refers to ({t}), Absent if none
    since,          \* history: kinds of Canceller whose cancel() landed since the last poll return
    cancels,        \* history: number of cancel() calls made on each Timer's Cancellers
    cur,            \* history: facts about the sleep call in progress
    hist,           \* history: per returned sleep call, its result and the cancels it took
    last,           \* history: facts about the most recent sleep call that returned
    once,           \* history: the registration as it would be had only the first cancel() been made
    cres,           \* history: the last cancel() call: who, what it returned, on a dropped Timer?
    after           \* per Timer: the Timer::after call that made it, if one did, and its worker

vars == <<registration, timer, set_readiness, since, cancels, cur, hist, last, once, cres,
          after>>

\* ------------------------------------------------------------ Timer::new2
\* Variant: the registration starts out readable and queued.
New2RegistrationReady ==
    [readiness |-> {Readable}, interest |-> {Readable}, opt |-> "edge",
     token |-> TokenValue, queued |-> TRUE, dropped |-> FALSE]

\* Registration::new2() followed by poll.register(&registration, token,
\* Ready::readable(), PollOpt::edge()): nothing is ready, nothing is queued.
New2Registration ==
    [readiness |-> {}, interest |-> {Readable}, opt |-> "edge",
     token |-> TokenValue, queued |-> FALSE, dropped |-> FALSE]

\* The Timer value built by new2: the token, an empty Events buffer.
New2Timer ==
    [pc |-> "idle", token |-> TokenValue, events |-> <<>>,
     duration |-> 0, waited |-> 0, pollres |-> "none"]

\* Variant: every Canceller new2 returns refers to the first Timer's registration.
New2CancellerShared(t) == {1}

\* The Canceller returned by new2 for Timer t refers to t's registration.
New2Canceller(t) == {t}

\* The original Canceller of Timer t (the one new2 returned with it).
Original(t) == IF t \in Timers THEN t ELSE NumCancellers + t

AllCancellers == Cancellers \cup {Original(t) : t \in Pairs}

\* Whether Canceller c is the one new2 returned or a clone.
Kind(c) == IF \E t \in Pairs : c = Original(t) THEN "original" ELSE "clone"

NoCancel == [by |-> 0, res |-> "none", dropped |-> FALSE]

NoLast == [zero |-> FALSE, full |-> FALSE, before |-> FALSE, during |-> FALSE,
           once |-> "none", carried |-> "none", late |-> FALSE]

NoCur == [before |-> FALSE, byCall |-> {}, byPoll |-> {}, hit |-> NoHit, once |-> "none",
          carried |-> "none", late |-> FALSE]

\* A Timer the program made with Timer::new2 itself.
Direct == [caller |-> "direct", worker |-> "none", wait |-> 0, ret |-> "none", cb |-> <<>>]

\* Timer::after(wait, callback) has been called and has not yet run new2.
AfterCalled(w) == [caller |-> "call", worker |-> "none", wait |-> w, ret |-> "none",
                   cb |-> <<>>]

\* The state after construction: each Timer either came from Timer::new2, with
\* its Canceller, or is about to be made by a Timer::after call.
Init ==
    /\ after \in [Pairs -> {Direct} \cup {AfterCalled(w) : w \in Durations}]
    /\ \A t \in Pairs \ Timers : after[t] = Direct
    /\ registration = [t \in Pairs |-> New2Registration]
    /\ timer = [t \in Pairs |->
                   IF after[t] = Direct THEN New2Timer
                   ELSE [New2Timer EXCEPT !.pc = "unborn"]]
    /\ set_readiness = [c \in AllCancellers |->
                           IF \E t \in Pairs : c = Original(t) /\ after[t] = Direct
                           THEN New2Canceller(CHOOSE t \in Pairs : c = Original(t))
                           ELSE Absent]
    /\ since = [t \in Pairs |-> {}]
    /\ cancels = [t \in Pairs |-> 0]
    /\ cur = [t \in Pairs |-> NoCur]
    /\ hist = [t \in Pairs |-> <<>>]
    /\ last = [t \in Pairs |-> NoLast]
    /\ once = [t \in Pairs |-> New2Registration]
    /\ cres = NoCancel

\* ------------------------------------------------- mio, as lib.rs uses it
\* Variant: the node is queued only when the stored readiness changes.
SetReadinessNodeOnChange(node, ready) ==
    IF node.dropped THEN node
    ELSE [node EXCEPT !.readiness = ready,
                      !.queued = node.queued
                                 \/ ((ready \ node.readiness) \cap node.interest) # {}]

\* Variant: setting a readiness that is already pending takes it back.
SetReadinessNodeToggle(node, ready) ==
    IF node.dropped THEN node
    ELSE IF node.queued THEN [node EXCEPT !.queued = FALSE]
    ELSE [node EXCEPT !.readiness = ready,
                      !.queued = (ready \cap node.interest) # {}]

\* SetReadiness::set_readiness(ready) on a registration node: a dropped node
\* takes no more notifications; otherwise the readiness is stored and, when it
\* meets the registered interest, the node is queued for the next poll.
SetReadinessNode(node, ready) ==
    IF node.dropped THEN node
    ELSE [node EXCEPT !.readiness = ready,
                      !.queued = node.queued \/ (ready \cap node.interest) # {}]

\* Variant: set_readiness on a dropped registration reports an error.
SetReadinessResultDroppedErr(node, ready) == IF node.dropped THEN "Err" ELSE "Ok"

\* What set_readiness returns to cancel().
SetReadinessResult(node, ready) == "Ok"

\* Variant: the poll reports the node whenever its readiness is set, queued or not.
PollEventsLevel(node) ==
    IF (node.readiness \cap node.interest) # {} /\ EventsCapacity > 0
    THEN <<node.token>> ELSE <<>>

\* The events a returning poll puts in the buffer: one event with the node's
\* token if the node is queued with readiness of interest, up to the capacity.
PollEvents(node) ==
    IF node.queued /\ (node.readiness \cap node.interest) # {} /\ EventsCapacity > 0
    THEN <<node.token>> ELSE <<>>

\* Variant: the registration behaves as level-triggered.
PollDequeueLevel(node) ==
    [node EXCEPT !.queued = node.queued /\ (node.readiness \cap node.interest) # {}]

\* The node after the poll has taken it from the queue: an edge-triggered
\* registration is dequeued, a level-triggered one stays queued while ready.
PollDequeue(node) ==
    IF node.opt = "edge" THEN [node EXCEPT !.queued = FALSE]
    ELSE [node EXCEPT !.queued = node.queued /\ (node.readiness \cap node.interest) # {}]

\* ----------------------------------------------------------- Timer::sleep
\* Variant: the scan compares with another token.
SleepResultWrongToken(events, token) ==
    IF \E i \in 1..Len(events) : events[i] = token + 1 THEN "Interrupted" ELSE "Ok"

\* The scan of the events after a successful poll.
SleepResult(events, token) ==
    IF \E i \in 1..Len(events) : events[i] = token THEN "Interrupted" ELSE "Ok"

\* History: how the cancellation pending at a sleep call got there: "late" if a
\* cancel() landed after the previous sleep's poll had returned and before that
\* sleep returned, "idle" if it landed with no sleep in progress.
Carried(t) == IF since[t] = {} THEN "none" ELSE IF last[t].late THEN "late" ELSE "idle"

\* Variant: sleep resets the registration before it polls.
SleepResetting(t, d) ==
    /\ timer[t].pc = "idle"
    /\ Len(hist[t]) < MaxSleeps
    /\ timer' = [timer EXCEPT ![t] = [@ EXCEPT !.pc = "polling", !.events = <<>>,
                                               !.duration = d, !.waited = 0,
                                               !.pollres = "none"]]
    /\ registration' = [registration EXCEPT ![t] = [@ EXCEPT !.queued = FALSE]]
    /\ cur' = [cur EXCEPT ![t] = [before |-> cancels[t] > 0, byCall |-> since[t],
                                  byPoll |-> {}, hit |-> NoHit, once |-> "none",
                                  carried |-> Carried(t), late |-> FALSE]]
    /\ UNCHANGED <<set_readiness, since, cancels, hist, last, once, cres>>

\* let r = timer.sleep(duration): the call enters poll.poll(&mut events,
\* Some(duration)), which clears the buffer and blocks.
Sleep(t, d) ==
    /\ timer[t].pc = "idle"
    /\ Len(hist[t]) < MaxSleeps
    /\ timer' = [timer EXCEPT ![t] = [@ EXCEPT !.pc = "polling", !.events = <<>>,
                                               !.duration = d, !.waited = 0,
                                               !.pollres = "none"]]
    /\ cur' = [cur EXCEPT ![t] = [before |-> cancels[t] > 0, byCall |-> since[t],
                                  byPoll |-> {}, hit |-> NoHit, once |-> "none",
                                  carried |-> Carried(t), late |-> FALSE]]
    /\ UNCHANGED <<registration, set_readiness, since, cancels, hist, last, once, cres>>

\* Variant: the blocked poll keeps waiting although the node is queued.
TickWhileQueued(t) ==
    /\ timer[t].pc = "polling"
    /\ timer[t].waited < timer[t].duration
    /\ timer' = [timer EXCEPT ![t].waited = @ + 1]
    /\ UNCHANGED <<registration, set_readiness, since, cancels, cur, hist, last, once, cres>>

\* One unit of the timeout passes while the poll is blocked with nothing queued.
Tick(t) ==
    /\ timer[t].pc = "polling"
    /\ ~registration[t].queued
    /\ timer[t].waited < timer[t].duration
    /\ timer' = [timer EXCEPT ![t].waited = @ + 1]
    /\ UNCHANGED <<registration, set_readiness, since, cancels, cur, hist, last, once, cres>>

\* Variant: a poll with a zero timeout returns without looking at the queue.
PollReturnZeroSkipsQueue(t) ==
    /\ timer[t].pc = "polling"
    /\ registration[t].queued \/ timer[t].waited = timer[t].duration
    /\ timer' = [timer EXCEPT ![t] = [@ EXCEPT !.pc = "polled",
                                               !.events = IF timer[t].duration = 0 THEN <<>>
                                                          ELSE PollEvents(registration[t]),
                                               !.pollres = "ok"]]
    /\ registration' = [registration EXCEPT ![t] =
                           IF timer[t].duration = 0 THEN @ ELSE PollDequeue(@)]
    /\ since' = [since EXCEPT ![t] = {}]
    /\ cur' = [cur EXCEPT ![t] = [@ EXCEPT !.byPoll = since[t],
                                            !.once = SleepResult(PollEvents(once[t]),
                                                                 timer[t].token)]]
    /\ once' = [once EXCEPT ![t] = PollDequeue(@)]
    /\ UNCHANGED <<set_readiness, cancels, hist, last, cres>>

\* Variant: the poll is made without a timeout and returns only for a queued node.
PollReturnNoTimeout(t) ==
    /\ timer[t].pc = "polling"
    /\ registration[t].queued
    /\ timer' = [timer EXCEPT ![t] = [@ EXCEPT !.pc = "polled",
                                               !.events = PollEvents(registration[t]),
                                               !.pollres = "ok"]]
    /\ registration' = [registration EXCEPT ![t] = PollDequeue(@)]
    /\ since' = [since EXCEPT ![t] = {}]
    /\ cur' = [cur EXCEPT ![t] = [@ EXCEPT !.byPoll = since[t],
                                            !.once = SleepResult(PollEvents(once[t]),
                                                                 timer[t].token)]]
    /\ once' = [once EXCEPT ![t] = PollDequeue(@)]
    /\ UNCHANGED <<set_readiness, cancels, hist, last, cres>>

\* poll.poll returns Ok: the node is queued or the timeout has elapsed.
PollReturn(t) ==
    /\ timer[t].pc = "polling"
    /\ registration[t].queued \/ timer[t].waited = timer[t].duration
    /\ timer' = [timer EXCEPT ![t] = [@ EXCEPT !.pc = "polled",
                                               !.events = PollEvents(registration[t]),
                                               !.pollres = "ok"]]
    /\ registration' = [registration EXCEPT ![t] = PollDequeue(@)]
    /\ since' = [since EXCEPT ![t] = {}]
    /\ cur' = [cur EXCEPT ![t] = [@ EXCEPT !.byPoll = since[t],
                                            !.once = SleepResult(PollEvents(once[t]),
                                                                 timer[t].token)]]
    /\ once' = [once EXCEPT ![t] = PollDequeue(@)]
    /\ UNCHANGED <<set_readiness, cancels, hist, last, cres>>

\* The facts recorded about a sleep call as it returns.
Facts(t) ==
    [zero |-> timer[t].duration = 0, full |-> timer[t].waited = timer[t].duration,
     before |-> cur[t].before, during |-> cur[t].hit # NoHit, once |-> cur[t].once,
     carried |-> cur[t].carried, late |-> cur[t].late]

\* The history entry of a sleep call that returns res.
Entry(t, res) == [res |-> res, by |-> cur[t].byPoll]

\* Variant: sleep looks at the timeout first and reports Ok when it has elapsed.
SleepReturnTimeoutFirst(t) ==
    /\ timer[t].pc = "polled"
    /\ timer' = [timer EXCEPT ![t].pc = "idle"]
    /\ hist' = [hist EXCEPT ![t] =
                   Append(@, Entry(t, IF timer[t].waited = timer[t].duration THEN "Ok"
                                      ELSE SleepResult(timer[t].events, timer[t].token)))]
    /\ last' = [last EXCEPT ![t] = Facts(t)]
    /\ cur' = [cur EXCEPT ![t] = NoCur]
    /\ UNCHANGED <<registration, set_readiness, since, cancels, once, cres>>

\* Variant: sleep drains the registration's queue as it returns.
SleepReturnDraining(t) ==
    /\ timer[t].pc = "polled"
    /\ timer' = [timer EXCEPT ![t].pc = "idle"]
    /\ hist' = [hist EXCEPT ![t] =
                   Append(@, Entry(t, SleepResult(timer[t].events, timer[t].token)))]
    /\ last' = [last EXCEPT ![t] = Facts(t)]
    /\ cur' = [cur EXCEPT ![t] = NoCur]
    /\ registration' = [registration EXCEPT ![t] = [@ EXCEPT !.queued = FALSE]]
    /\ UNCHANGED <<set_readiness, since, cancels, once, cres>>

\* After a successful poll: the for loop over the events and the return.
SleepReturn(t) ==
    /\ timer[t].pc = "polled"
    /\ timer' = [timer EXCEPT ![t].pc = "idle"]
    /\ hist' = [hist EXCEPT ![t] =
                   Append(@, Entry(t, SleepResult(timer[t].events, timer[t].token)))]
    /\ last' = [last EXCEPT ![t] = Facts(t)]
    /\ cur' = [cur EXCEPT ![t] = NoCur]
    /\ UNCHANGED <<registration, set_readiness, since, cancels, once, cres>>

\* ------------------------------------------------------ Canceller::cancel
\* canceller.cancel(): set_readiness(Ready::readable()) on the node the
\* Canceller refers to; the Canceller returns what set_readiness returns.
Cancel(c) ==
    \E t \in set_readiness[c] :
        /\ cancels[t] < MaxCancels
        /\ registration' = [registration EXCEPT ![t] = SetReadinessNode(@, {Readable})]
        /\ cres' = [by |-> c, res |-> SetReadinessResult(registration[t], {Readable}),
                    dropped |-> registration[t].dropped]
        /\ cancels' = [cancels EXCEPT ![t] = @ + 1]
        /\ since' = [since EXCEPT ![t] = IF registration[t].dropped THEN @ ELSE @ \cup {Kind(c)}]
        /\ cur' = [cur EXCEPT ![t].hit =
                      IF timer[t].pc = "polling" /\ @ = NoHit THEN {timer[t].waited} ELSE @,
                                ![t].late = @ \/ timer[t].pc = "polled"]
        /\ once' = [once EXCEPT ![t] =
                       IF cancels[t] = 0 THEN SetReadinessNode(@, {Readable}) ELSE @]
        /\ UNCHANGED <<timer, set_readiness, hist, last>>

\* #[derive(Clone)]: the clone's set_readiness field is a copy of the source's.
CloneOf(c) == set_readiness[c]

\* canceller.clone(), stored in the first free slot for clones.
Clone(c) ==
    /\ set_readiness[c] # Absent
    /\ \E c2 \in Cancellers :
          /\ Kind(c2) = "clone" /\ set_readiness[c2] = Absent
          /\ \A c3 \in Cancellers :
                (c3 < c2 /\ Kind(c3) = "clone") => set_readiness[c3] # Absent
          /\ set_readiness' = [set_readiness EXCEPT ![c2] = CloneOf(c)]
    /\ UNCHANGED <<registration, timer, since, cancels, cur, hist, last, once, cres>>

\* ----------------------------------------------------------- drop(timer)
\* The Timer goes out of scope between sleep calls: its Poll and its
\* Registration are dropped; the node is flagged dropped.
DropRegistration(node) == [node EXCEPT !.dropped = TRUE, !.queued = FALSE]

DropTimer(t) ==
    /\ timer[t].pc = "idle"
    /\ timer' = [timer EXCEPT ![t].pc = "dropped"]
    /\ registration' = [registration EXCEPT ![t] = DropRegistration(@)]
    /\ once' = [once EXCEPT ![t] = DropRegistration(@)]
    /\ UNCHANGED <<set_readiness, since, cancels, cur, hist, last, cres>>

\* ------------------------------------------------- poll.poll(...)? fails
\* Variant: a failed poll is reported as a cancellation.
PollErrorAsInterrupted(t, e) ==
    /\ timer[t].pc = "polling"
    /\ timer' = [timer EXCEPT ![t] = [@ EXCEPT !.pc = "idle", !.pollres = e]]
    /\ hist' = [hist EXCEPT ![t] = Append(@, Entry(t, "Interrupted"))]
    /\ last' = [last EXCEPT ![t] = Facts(t)]
    /\ cur' = [cur EXCEPT ![t] = NoCur]
    /\ UNCHANGED <<registration, set_readiness, since, cancels, once, cres>>

\* The poll call returns Err(e): the ? operator returns e from sleep at once.
PollError(t, e) ==
    /\ timer[t].pc = "polling"
    /\ timer' = [timer EXCEPT ![t] = [@ EXCEPT !.pc = "idle", !.pollres = e]]
    /\ hist' = [hist EXCEPT ![t] = Append(@, Entry(t, e))]
    /\ last' = [last EXCEPT ![t] = Facts(t)]
    /\ cur' = [cur EXCEPT ![t] = NoCur]
    /\ UNCHANGED <<registration, set_readiness, since, cancels, once, cres>>

\* ----------------------------------------------------------- Timer::after
\* let (mut timer, canceller) = Timer::new2()? succeeds.
AfterNew2(t) ==
    /\ after[t].caller = "call"
    /\ after' = [after EXCEPT ![t].caller = "made"]
    /\ timer' = [timer EXCEPT ![t] = New2Timer]
    /\ registration' = [registration EXCEPT ![t] = New2Registration]
    /\ UNCHANGED <<set_readiness, since, cancels, cur, hist, last, once, cres>>

\* Timer::new2()? fails: after returns the error; nothing was made or spawned.
AfterNew2Error(t, e) ==
    /\ after[t].caller = "call"
    /\ after' = [after EXCEPT ![t] = [@ EXCEPT !.caller = "failed", !.ret = e]]
    /\ UNCHANGED <<registration, timer, set_readiness, since, cancels, cur, hist, last,
                   once, cres>>

\* std::thread::Builder::new().spawn(closure)? succeeds: the worker thread
\* exists and owns the timer and the callback.
AfterSpawn(t) ==
    /\ after[t].caller = "made"
    /\ after' = [after EXCEPT ![t] = [@ EXCEPT !.caller = "spawned", !.worker = "start"]]
    /\ UNCHANGED <<registration, timer, set_readiness, since, cancels, cur, hist, last,
                   once, cres>>

\* Variant: when the spawn fails the callback is told about the error.
AfterSpawnErrorCallsBack(t, e) ==
    /\ after[t].caller = "made"
    /\ after' = [after EXCEPT ![t] = [@ EXCEPT !.caller = "failed", !.ret = e,
                                               !.cb = Append(@, [res |-> e,
                                                                 thread |-> "caller"])]]
    /\ DropTimer(t)

\* spawn(closure)? fails: the closure is dropped, the timer and the callback
\* with it, the canceller goes out of scope, and after returns the error.
AfterSpawnError(t, e) ==
    /\ after[t].caller = "made"
    /\ after' = [after EXCEPT ![t] = [@ EXCEPT !.caller = "failed", !.ret = e]]
    /\ DropTimer(t)

\* Ok(canceller): the caller gets the Canceller new2 made.
AfterReturn(t) ==
    /\ after[t].caller = "spawned"
    /\ after' = [after EXCEPT ![t] = [@ EXCEPT !.caller = "returned", !.ret = "Ok"]]
    /\ set_readiness' = [set_readiness EXCEPT ![Original(t)] = New2Canceller(t)]
    /\ UNCHANGED <<registration, timer, since, cancels, cur, hist, last, once, cres>>

\* Variant: the worker's sleep starts from a reset registration.
WorkerSleepResetting(t) ==
    /\ after[t].worker = "start"
    /\ after' = [after EXCEPT ![t].worker = "sleeping"]
    /\ SleepResetting(t, after[t].wait)

\* The worker thread starts the closure: timer.sleep(wait) is called.
WorkerSleep(t) ==
    /\ after[t].worker = "start"
    /\ after' = [after EXCEPT ![t].worker = "sleeping"]
    /\ Sleep(t, after[t].wait)

\* The callback's invocation by the worker, with the result r of its sleep.
Invocation(r) == [res |-> r, thread |-> "worker"]

\* callback(timer.sleep(wait)): the sleep has returned, the worker calls the
\* callback with its result.
WorkerCallback(t) ==
    /\ after[t].worker = "sleeping"
    /\ timer[t].pc = "idle"
    /\ after' = [after EXCEPT ![t] =
                    [@ EXCEPT !.worker = "called",
                              !.cb = Append(@, Invocation(hist[t][Len(hist[t])].res))]]
    /\ UNCHANGED <<registration, timer, set_readiness, since, cancels, cur, hist, last,
                   once, cres>>

\* The closure ends: the timer it owned is dropped and the thread finishes.
WorkerExit(t) ==
    /\ after[t].worker = "called"
    /\ after' = [after EXCEPT ![t].worker = "done"]
    /\ DropTimer(t)

Next ==
    \/ \E t \in Timers, d \in Durations :
          after[t].caller = "direct" /\ Sleep(t, d) /\ UNCHANGED after
    \/ \E t \in Timers : Tick(t) /\ UNCHANGED after
    \/ \E t \in Timers : PollReturn(t) /\ UNCHANGED after
    \/ \E t \in Timers : SleepReturn(t) /\ UNCHANGED after
    \/ \E c \in Cancellers : Cancel(c) /\ UNCHANGED after
    \/ \E c \in Cancellers : Clone(c) /\ UNCHANGED after
    \/ \E t \in Timers : after[t].caller = "direct" /\ DropTimer(t) /\ UNCHANGED after
    \/ \E t \in Timers : AfterNew2(t)
    \/ \E t \in Timers : AfterSpawn(t)
    \/ \E t \in Timers : AfterReturn(t)
    \/ \E t \in Timers : WorkerSleep(t)
    \/ \E t \in Timers : WorkerCallback(t)
    \/ \E t \in Timers : WorkerExit(t)

\* The program with every OS call succeeding.
Spec == Init /\ [][Next]_vars

NextOs ==
    \/ Next
    \/ \E t \in Timers, e \in OsErrors : PollError(t, e) /\ UNCHANGED after
    \/ \E t \in Timers, e \in OsErrors : AfterNew2Error(t, e)
    \/ \E t \in Timers, e \in OsErrors : AfterSpawnError(t, e)

\* The program with the poll call allowed to fail.
SpecOs == Init /\ [][NextOs]_vars

\* The steps of a blocked or returning sleep call, as steps of the program.
TickStep(t) == Tick(t) /\ UNCHANGED after
PollReturnStep(t) == PollReturn(t) /\ UNCHANGED after
SleepReturnStep(t) == SleepReturn(t) /\ UNCHANGED after

\* Scheduling: time passes for a blocked poll, a poll whose timeout has elapsed
\* or whose node is queued returns, and a thread that is running (the one
\* inside sleep, the worker spawned by Timer::after) takes its next step.
Fairness ==
    \A t \in Timers :
        /\ WF_vars(TickStep(t))
        /\ WF_vars(PollReturnStep(t))
        /\ WF_vars(SleepReturnStep(t))
        /\ WF_vars(WorkerSleep(t))
        /\ WF_vars(WorkerCallback(t))

\* The step is a call the program chooses to make: a cancel(), or a sleep on a
\* Timer it made itself (not the one sleep of a Timer::after worker).
CallStep(t) ==
    \/ cancels'[t] # cancels[t]
    \/ after[t].caller = "direct" /\ timer[t].pc = "idle" /\ timer'[t].pc = "polling"

\* The program making a bounded number of calls.
NextFair == NextOs /\ \A t \in Timers : CallStep(t) => Len(hist[t]) + cancels[t] < MaxFairCalls

\* The program, OS failures included, under that scheduling.
SpecFair == Init /\ [][NextFair]_vars /\ Fairness

\* ------------------------------------------------------------- two pairs
\* The calls made so far on both pairs.
PairCalls == Len(hist[1]) + cancels[1] + Len(hist[2]) + cancels[2]

\* The program using both pairs, each from its own threads: sleep on either
\* Timer, cancel() and clone() on either Canceller and on the clones.
NextTwo ==
    \/ \E t \in Pairs, d \in Durations :
          /\ after[t].caller = "direct" /\ PairCalls < MaxPairCalls
          /\ Sleep(t, d) /\ UNCHANGED after
    \/ \E t \in Pairs : TickStep(t)
    \/ \E t \in Pairs : PollReturnStep(t)
    \/ \E t \in Pairs : SleepReturnStep(t)
    \/ \E c \in AllCancellers : PairCalls < MaxPairCalls /\ Cancel(c) /\ UNCHANGED after
    \/ \E c \in AllCancellers : Clone(c) /\ UNCHANGED after

SpecTwo == Init /\ [][NextTwo]_vars

\* ================================================================ claims
Returned(t) == Len(hist[t]) >= 1
LastEntry(t) == hist[t][Len(hist[t])]
PrevEntry(t) == hist[t][Len(hist[t]) - 1]
\* The step is a cancel() on one of Timer t's Cancellers.
CancelStep(t) == cancels'[t] = cancels[t] + 1

\* C1: a sleep(d) called after a cancel() has returned, with no earlier sleep
\* on the Timer, returns Interrupted for every d and never Ok; while that sleep
\* is blocked the early cancellation is still queued.
C1_EarlyCancelNotLost ==
    \A t \in Timers :
        /\ (timer[t].pc = "polling" /\ cur[t].before /\ Len(hist[t]) = 0)
              => registration[t].queued
        /\ (Len(hist[t]) = 1 /\ last[t].before) => hist[t][1].res = "Interrupted"

C1_Witness ==
    \E t \in Timers : Len(hist[t]) = 1 /\ last[t].before /\ ~last[t].zero
                      /\ timer[t].pc = "idle"

\* C2: a sleep whose blocked wait a cancel() lands in returns Interrupted, and
\* from the moment the cancel lands it waits no further for its timeout.
C2_CancelDuringSleep ==
    \A t \in Timers :
        /\ (timer[t].pc \in {"polling", "polled"} /\ cur[t].hit # NoHit)
              => cur[t].hit = {timer[t].waited}
        /\ (Returned(t) /\ last[t].during) => LastEntry(t).res = "Interrupted"

C2_Witness ==
    \E t \in Timers : Returned(t) /\ last[t].during /\ ~last[t].before /\ ~last[t].full
                      /\ LastEntry(t).by = {"original"}

\* C3 as stated: every sleep called after some cancel() has returned on the
\* Timer's Canceller returns Interrupted, the second and later ones included.
C3_Original ==
    \A t \in Timers : (Returned(t) /\ last[t].before) => LastEntry(t).res = "Interrupted"

\* C3 as amended: a cancellation stays pending until a sleep's poll returns, and
\* the sleep whose poll takes it returns Interrupted; a sleep that has no cancel()
\* since the previous poll returned is not cancelled, whatever happened before.
C3_LatchedUntilReported ==
    \A t \in Timers :
        /\ (since[t] # {} /\ timer[t].pc # "dropped") => registration[t].queued
        /\ Returned(t) =>
              /\ LastEntry(t).by # {} => LastEntry(t).res = "Interrupted"
              /\ (last[t].before /\ LastEntry(t).by = {}) => LastEntry(t).res = "Ok"

C3_Witness ==
    \E t \in Timers : Len(hist[t]) >= 2 /\ last[t].before /\ LastEntry(t).by = {}
                      /\ PrevEntry(t).by # {}

\* C4: after a sleep that returned Interrupted, the next sleep with no cancel()
\* since that sleep's poll returned is not cancelled: it returns Ok, after its
\* full duration.
C4_CancellationConsumed ==
    \A t \in Timers :
        (Len(hist[t]) >= 2 /\ PrevEntry(t).res = "Interrupted" /\ LastEntry(t).by = {})
            => (LastEntry(t).res = "Ok" /\ last[t].full)

\* The example's run: sleep, cancel, sleep, sleep.
C4_Witness ==
    \E t \in Timers : /\ Len(hist[t]) = 3 /\ cancels[t] = 1
                      /\ hist[t][1].by = {} /\ hist[t][2].by = {"original"}
                      /\ hist[t][3].by = {} /\ ~last[t].zero /\ ~last[t].during

\* C5: on a Timer whose Cancellers never cancel, every sleep(d) returns Ok and
\* only when the timeout d has fully elapsed.
C5_UninterruptedSleep ==
    \A t \in Timers :
        cancels[t] = 0 =>
            /\ \A i \in 1..Len(hist[t]) : hist[t][i].res = "Ok"
            /\ Returned(t) => last[t].full
            /\ timer[t].pc = "polled" => timer[t].waited = timer[t].duration

C5_Witness ==
    \E t \in Timers : cancels[t] = 0 /\ Len(hist[t]) >= 2 /\ ~last[t].zero

\* C6 as stated: wherever the N cancel() calls are placed, every sleep returns
\* what it would have returned had only the first of them been made, and every
\* call returns success.
C6_Original ==
    /\ cres.res \in {"none", "Ok"}
    /\ \A t \in Timers : Returned(t) => LastEntry(t).res = last[t].once

\* C6 as amended: every cancel() returns success, and a cancel() made while an
\* earlier one is still pending (no sleep poll has returned since) changes
\* nothing, so that the calls between two polls count as one.
C6_IdempotentWhilePending ==
    [][\A t \in Timers :
          CancelStep(t) =>
              /\ cres'.res = "Ok"
              /\ since[t] # {} => (registration'[t] = registration[t] /\ timer' = timer)
      ]_vars

C6_Witness ==
    \E t \in Timers : /\ Len(hist[t]) = 2 /\ cancels[t] >= 2
                      /\ hist[t][1] = [res |-> "Interrupted", by |-> {"original", "clone"}]
                      /\ hist[t][2] = [res |-> "Ok", by |-> {}]

\* C7: every Canceller, original or clone, refers to its Timer's registration,
\* and a sleep is cancelled exactly when some cancel() landed since the previous
\* poll, whichever kind of Canceller made it; so a clone's cancel() during a
\* blocked sleep cancels it also after the original's cancellation was reported.
C7_CloneIndependence ==
    \A t \in Timers :
        /\ \A c \in Cancellers : set_readiness[c] \in {Absent, set_readiness[Original(t)]}
        /\ \A i \in 1..Len(hist[t]) :
              \A K \in {{"original"}, {"clone"}, {"original", "clone"}} :
                  hist[t][i].by = K => hist[t][i].res = "Interrupted"

C7_Witness ==
    \E t \in Timers : /\ Len(hist[t]) >= 2
                      /\ PrevEntry(t) = [res |-> "Interrupted", by |-> {"original"}]
                      /\ LastEntry(t).by = {"clone"} /\ last[t].during /\ ~last[t].full

\* C8 as stated: a cancel() made after the Timer was dropped returns an error.
C8_Original == cres.dropped => cres.res = "Err"

\* C8 as amended: a cancel() made after the Timer was dropped returns success in
\* one step and changes nothing.
C8_CancelAfterDrop ==
    [][\A t \in Timers :
          (CancelStep(t) /\ registration[t].dropped) =>
              /\ cres'.res = "Ok" /\ cres'.dropped
              /\ registration' = registration /\ timer' = timer /\ hist' = hist
      ]_vars

C8_Witness == cres.dropped /\ cres.by # Original(1)

\* C9: sleep(0) does not wait (its poll can return at once) and it returns
\* Interrupted exactly when a cancel() landed since the previous poll returned.
C9_ZeroDuration ==
    \A t \in Timers :
        /\ (timer[t].pc = "polling" /\ timer[t].duration = 0)
              => (timer[t].waited = 0 /\ ENABLED PollReturn(t))
        /\ (Returned(t) /\ last[t].zero) =>
              /\ LastEntry(t).by # {} => LastEntry(t).res = "Interrupted"
              /\ LastEntry(t).by = {} => LastEntry(t).res = "Ok"

C9_Witness ==
    \E t \in Timers : Len(hist[t]) >= 2 /\ last[t].zero /\ LastEntry(t).by # {}
                      /\ PrevEntry(t).res = "Ok"

\* C10: a failed poll makes sleep return that very error at once, with no second
\* poll and the events left alone; Ok and Interrupted come only from a
\* successful poll, Interrupted only with an event carrying the Timer's token.
C10_PollErrorKept ==
    \A t \in Timers :
        (Returned(t) /\ timer[t].pc \in {"idle", "dropped"}) =>
            /\ timer[t].pollres \in OsErrors => LastEntry(t).res = timer[t].pollres
            /\ LastEntry(t).res \in {"Ok", "Interrupted"} => timer[t].pollres = "ok"
            /\ LastEntry(t).res = "Interrupted"
                  => \E i \in 1..Len(timer[t].events) : timer[t].events[i] = timer[t].token

C10_PollErrorStep ==
    \A t \in Timers :
        (timer[t].pc = "polling" /\ timer'[t].pollres \in OsErrors) =>
            /\ timer'[t].pc = "idle"
            /\ timer'[t].events = timer[t].events
            /\ hist'[t] = Append(hist[t], [res |-> timer'[t].pollres, by |-> cur[t].byPoll])

C10_OutcomesNotConflated == []C10_PollErrorKept /\ [][C10_PollErrorStep]_vars

C10_Witness ==
    \E t \in Timers : /\ Len(hist[t]) >= 2 /\ timer[t].pc = "idle"
                      /\ LastEntry(t).res \in OsErrors /\ registration[t].queued
                      /\ PrevEntry(t).res = "Interrupted"

\* C11: when Timer::after fails in new2 or in the spawn it returns the error
\* and the callback is never invoked; otherwise the callback is invoked at most
\* once, by the worker thread, with the result of the worker's sleep(wait), the
\* worker does not finish without having invoked it, and once the worker is
\* spawned the callback does get invoked.
C11_CallbackState ==
    \A t \in Timers :
        /\ after[t].caller = "failed"
              => (after[t].ret \in OsErrors /\ after[t].cb = <<>>
                  /\ after[t].worker = "none")
        /\ after[t].ret = "Ok" => after[t].worker # "none"
        /\ Len(after[t].cb) <= 1
        /\ after[t].cb # <<>>
              => /\ after[t].caller \in {"spawned", "returned"}
                 /\ after[t].cb[1].thread = "worker"
                 /\ Len(hist[t]) = 1 /\ after[t].cb[1].res = hist[t][1].res
        /\ after[t].worker \in {"called", "done"} <=> Len(after[t].cb) = 1

C11_AfterCallback ==
    /\ []C11_CallbackState
    /\ \A t \in Timers : after[t].caller = "spawned" ~> Len(after[t].cb) = 1

C11_Witness ==
    \E t \in Timers : /\ after[t].caller = "returned" /\ after[t].worker = "done"
                      /\ after[t].cb = <<[res |-> "Ok", thread |-> "worker"]>>
                      /\ after[t].wait > 0 /\ last[t].full

\* C12: with a Canceller returned by Timer::after, a cancel() that lands before
\* the worker's poll has returned makes the callback run with Interrupted, also
\* when it lands before the worker has called sleep.
C12_AfterCancelled ==
    \A t \in Timers :
        (after[t].cb # <<>> /\ hist[t][1].by # {}) => after[t].cb[1].res = "Interrupted"

C12_Witness ==
    \E t \in Timers : /\ after[t].cb # <<>> /\ hist[t][1].by # {}
                      /\ after[t].wait > 0 /\ last[t].carried = "idle"

\* C13: whenever the poll returned an event with the Timer's token, sleep
\* returns Interrupted, also when the timeout had fully elapsed; it returns Ok
\* only when the poll returned no such event.
C13_CancelBeforeTimeout ==
    \A t \in Timers :
        (Returned(t) /\ timer[t].pc \in {"idle", "dropped"} /\ timer[t].pollres = "ok") =>
            LET hasEvent == \E i \in 1..Len(timer[t].events) :
                                timer[t].events[i] = timer[t].token
            IN  /\ hasEvent => LastEntry(t).res = "Interrupted"
                /\ LastEntry(t).res = "Ok" => ~hasEvent

C13_Witness ==
    \E t \in Timers : /\ Returned(t) /\ timer[t].pc = "idle" /\ timer[t].pollres = "ok"
                      /\ last[t].full /\ ~last[t].zero /\ last[t].during
                      /\ timer[t].events = <<timer[t].token>>

\* C15: the sleep calls of a Timer that returned Interrupted are never more
\* than the cancel() calls made on its Cancellers, and a sleep returns
\* Interrupted only if a cancel() landed before its poll returned.
C15_NoSpuriousCancel ==
    \A t \in Timers :
        /\ Cardinality({i \in 1..Len(hist[t]) : hist[t][i].res = "Interrupted"})
              <= cancels[t]
        /\ \A i \in 1..Len(hist[t]) : hist[t][i].res = "Interrupted" => hist[t][i].by # {}

C15_Witness ==
    \E t \in Timers : /\ cancels[t] = 2 /\ timer[t].pc = "idle"
                      /\ Cardinality({i \in 1..Len(hist[t]) :
                                         hist[t][i].res = "Interrupted"}) = 2

\* C16: a cancel() that lands after a sleep's poll has returned, or with no
\* sleep in progress, stays queued, and the next sleep called returns
\* Interrupted.
C16_LateCancelCarried ==
    \A t \in Timers :
        /\ (timer[t].pc \in {"polled", "idle"} /\ since[t] # {}) => registration[t].queued
        /\ (Returned(t) /\ last[t].carried # "none") => LastEntry(t).res = "Interrupted"

C16_Witness ==
    \E t \in Timers : /\ Len(hist[t]) >= 2 /\ last[t].carried = "late"
                      /\ PrevEntry(t) = [res |-> "Ok", by |-> {}]

\* C17: every sleep call returns: a sleep that is blocked or has its poll's
\* result goes on to return, whatever the cancel() calls do; the return adds
\* exactly one outcome (Ok, Interrupted or an OS error) to the Timer's results,
\* nothing else adds one, and the Timer is then idle, its registration in
\* place, ready for the next sleep.
C17_InSleep(t) == timer[t].pc \in {"polling", "polled"}

C17_OneOutcome ==
    \A t \in Timers :
        /\ (C17_InSleep(t) /\ ~C17_InSleep(t)') =>
              /\ timer'[t].pc = "idle" /\ ~registration'[t].dropped
              /\ Len(hist'[t]) = Len(hist[t]) + 1
              /\ hist'[t][Len(hist'[t])].res \in {"Ok", "Interrupted"} \cup OsErrors
              /\ \A i \in 1..Len(hist[t]) : hist'[t][i] = hist[t][i]
        /\ (C17_InSleep(t)' \/ ~C17_InSleep(t)) => hist'[t] = hist[t]

C17_SleepTerminates ==
    /\ \A t \in Timers : C17_InSleep(t) ~> timer[t].pc = "idle"
    /\ [][C17_OneOutcome]_vars

\* After a sleep that failed with an OS error, a sleep has returned Ok after its
\* full wait, a cancel() landing between its poll's return and its own.
C17_Witness ==
    \E t \in Timers : /\ Len(hist[t]) >= 2 /\ timer[t].pc = "idle" /\ cancels[t] >= 2
                      /\ LastEntry(t).res = "Ok" /\ last[t].full /\ ~last[t].zero
                      /\ last[t].late /\ PrevEntry(t).res \in OsErrors

\* C14: with two pairs, a step of a sleep on one Timer, or a cancel() on the
\* Canceller new2 returned with it or on a clone referring to it, leaves the
\* other pair as it was: its registration, its Timer, its results and the
\* Cancellers referring to it; and a sleep on a Timer returns Interrupted only
\* for a cancel() on a Canceller of its own pair.
C14_PairState(u) ==
    <<registration[u], timer[u], hist[u], since[u], cancels[u],
      {c \in AllCancellers : set_readiness[c] = {u}}>>

\* The pair a cancel() by Canceller c is made on.
C14_PairOf(c) ==
    IF \E t \in Pairs : c = Original(t) THEN CHOOSE t \in Pairs : c = Original(t)
    ELSE CHOOSE t \in Pairs : set_readiness[c] = {t}

C14_Frame ==
    \A t \in Pairs : \A u \in Pairs \ {t} :
        /\ timer'[t] # timer[t] => C14_PairState(u)' = C14_PairState(u)
        /\ ((\E v \in Pairs : cancels'[v] # cancels[v]) /\ C14_PairOf(cres'.by) = t)
              => C14_PairState(u)' = C14_PairState(u)

C14_OwnCancelsOnly ==
    \A t \in Pairs :
        /\ set_readiness[Original(t)] \in {Absent, {t}}
        /\ Cardinality({i \in 1..Len(hist[t]) : hist[t][i].res = "Interrupted"})
              <= cancels[t]
        /\ cancels[t] = 0 => (~registration[t].queued /\ registration[t].readiness = {})

C14_Isolation == []C14_OwnCancelsOnly /\ [][C14_Frame]_vars

\* The second Timer is blocked in a sleep, untouched, while the first pair's
\* original and clone have cancelled and the first Timer's sleep has returned
\* Interrupted.
C14_Witness ==
    /\ timer[2].pc = "polling" /\ timer[2].waited > 0
    /\ timer[2].waited < timer[2].duration
    /\ cancels[2] = 0 /\ cancels[1] = 2 /\ Kind(cres.by) = "clone"
    /\ Returned(1) /\ LastEntry(1).res = "Interrupted" /\ registration[1].queued

====
